---- MODULE Spec2Model ----
(***************************************************************************)
(* Model of src/handle.rs: the process Handle, the HandleSnapshot created  *)
(* from it, and the two lazy iterators (modules of a snapshot, memory      *)
(* regions of a process).  The operating system is the environment: every  *)
(* foreign call is answered by a value drawn from the answers that call    *)
(* can give, and the OS handle table, the toolhelp snapshot contents and   *)
(* the extent of the address space are OS-side state.                      *)
(***************************************************************************)
EXTENDS Integers, Sequences, FiniteSets, TLC

\* ---------------------------------------------------------------- bounds
MaxHandles == 2      \* Handle values ever constructed
MaxSnaps == 1        \* HandleSnapshot values ever constructed
MaxModIters == 2     \* module iterators ever constructed
MaxMemIters == 1     \* memory-region iterators ever constructed
MaxPid == 2          \* process identifiers 0..MaxPid
MaxModules == 2      \* modules a snapshot can capture
MaxModPulls == 4     \* pulls on one module iterator
MaxNonePulls == 2    \* pulls of a memory iterator that returned None
AddrBits == 3        \* width of usize, in bits, counted in pages

\* ------------------------------------------------------ program constants
ACCESS_FIRST == 65535        \* PROCESS_ACCESS_RIGHTS(0xFFFF)
ACCESS_SECOND == 48          \* PROCESS_ACCESS_RIGHTS(0x10 | 0x20)

HandleIds == 1..MaxHandles
SnapIds == 1..MaxSnaps
ModIterIds == 1..MaxModIters
MemIterIds == 1..MaxMemIters
Pids == 0..MaxPid
\* Handle values: the OS numbers the process handles it opens 1, 2, ... and
\* gives the n-th toolhelp snapshot the value SnapBase + n; no value is reused.
SnapBase == MaxHandles + 1
RawVals == 1..(SnapBase + MaxSnaps)
Top == 2 ^ AddrBits

\* GetCurrentProcessId(): the identifier of the calling process.
GetCurrentProcessId == 1

\* HANDLE::is_invalid as used by try_from and by both Drop impls: the null
\* handle and INVALID_HANDLE_VALUE are the two invalid sentinels.
is_invalid(h) == h = 0 \/ h = -1

\* Option<T> is a sequence of length at most one.
None == <<>>
Some(v) == <<v>>

\* Result<HANDLE> of a foreign call that returns a handle.
OsErr == [ok |-> FALSE, h |-> 0]
OsOk(h) == [ok |-> TRUE, h |-> h]

VARIABLES
    handle,      \* Handle values: st, raw, process_id (+ requested pid, origin)
    snap,        \* HandleSnapshot values: st, raw, process_id (+ originating Handle)
    moditer,     \* HandleSnapshotModuleIter values: st, handle, is_first
                 \*   (+ yields, nones: pulls that returned Some / None)
    memiter,     \* HandleMemoryBasicInformationIter values: st, handle, current_address
                 \*   (+ prev: the region yielded last; nones: pulls that returned None)
    os_open,     \* OS handle table: the handle values that are open
    os_closes,   \* number of CloseHandle calls the OS received, per handle value
    os_next,     \* next process handle value the OS hands out
    toolhelp,    \* OS toolhelp snapshots by handle value: module count, enumeration index
    vm_end,      \* first page that is not addressable in a target process
    panicked,    \* the program panicked (unwrap on Err)
    last         \* the last operation: its OS calls, their answers, what it returned

vars == <<handle, snap, moditer, memiter, os_open, os_closes, os_next,
          toolhelp, vm_end, panicked, last>>

NoHandle == [st |-> "none", raw |-> 0, process_id |-> 0, req |-> 0]
NoSnap == [st |-> "none", raw |-> 0, process_id |-> 0, from |-> 0]
NoModIter == [st |-> "none", handle |-> 0, is_first |-> TRUE, yields |-> 0, nones |-> 0]
NoMemIter == [st |-> "none", handle |-> 0, current_address |-> None, prev |-> <<>>, nones |-> 0]
NoLast == [op |-> "init", ok |-> TRUE, id |-> 0, pid |-> 0, calls |-> <<>>, answers |-> <<>>,
           ret |-> <<>>]

\* The next unused slot of a pool (values are numbered in construction order).
FreeIds(pool, ids) == {i \in ids : pool[i].st = "none" /\ \A j \in ids : j < i => pool[j].st # "none"}

\* ------------------------------------------------------------ OS answers
\* OpenProcess: the calling process can always open itself; identifier 0 is
\* rejected; any other process may be opened, refused, or answered with an
\* invalid handle.  v is the handle value the OS would hand out.
OpenProcessAnswers(pid, v) ==
    IF pid = GetCurrentProcessId THEN {OsOk(v)}
    ELSE IF pid = 0 THEN {OsErr, OsOk(0), OsOk(-1)}
    ELSE {OsErr, OsOk(0), OsOk(-1), OsOk(v)}

\* CreateToolhelp32Snapshot: Ok carries a fresh snapshot handle.
CreateSnapshotAnswers(v) == {OsErr, OsOk(v)}

\* ---------------------------------------------------- Handle::try_from
\* a1, a2: the OS answers to the first and (if made) second OpenProcess.
\* The result carries the OpenProcess requests that were issued.

\* Faulty variant: the second request is issued without the is_invalid test
\* of line 104, dropping a valid first handle.
try_from_leaky(value, a1, a2) ==
    IF ~a1.ok THEN [ok |-> FALSE, err |-> "Other", raw |-> 0, process_id |-> value, calls |-> <<ACCESS_FIRST>>]
    ELSE IF ~a2.ok THEN [ok |-> FALSE, err |-> "Other", raw |-> 0, process_id |-> value,
                         calls |-> <<ACCESS_FIRST, ACCESS_SECOND>>]
    ELSE IF is_invalid(a2.h) THEN [ok |-> FALSE, err |-> "Other", raw |-> 0, process_id |-> value,
                                   calls |-> <<ACCESS_FIRST, ACCESS_SECOND>>]
    ELSE [ok |-> TRUE, err |-> "", raw |-> a2.h, process_id |-> value,
          calls |-> <<ACCESS_FIRST, ACCESS_SECOND>>]

\* Faulty variant: line 118 stores 0 instead of value.
try_from_zero_pid(value, a1, a2) ==
    IF ~a1.ok THEN [ok |-> FALSE, err |-> "Other", raw |-> 0, process_id |-> value, calls |-> <<ACCESS_FIRST>>]
    ELSE IF ~is_invalid(a1.h)
         THEN [ok |-> TRUE, err |-> "", raw |-> a1.h, process_id |-> 0, calls |-> <<ACCESS_FIRST>>]
    ELSE IF ~a2.ok \/ is_invalid(a2.h)
         THEN [ok |-> FALSE, err |-> "Other", raw |-> 0, process_id |-> value,
               calls |-> <<ACCESS_FIRST, ACCESS_SECOND>>]
    ELSE [ok |-> TRUE, err |-> "", raw |-> a2.h, process_id |-> 0,
          calls |-> <<ACCESS_FIRST, ACCESS_SECOND>>]

try_from(value, a1, a2) ==
    IF ~a1.ok
    THEN \* line 102: `?` returns the error of the first OpenProcess
         [ok |-> FALSE, err |-> "Other", raw |-> 0, process_id |-> value, calls |-> <<ACCESS_FIRST>>]
    ELSE IF ~is_invalid(a1.h)
    THEN \* lines 104, 109 skipped; line 116
         [ok |-> TRUE, err |-> "", raw |-> a1.h, process_id |-> value, calls |-> <<ACCESS_FIRST>>]
    ELSE IF ~a2.ok
    THEN \* line 106: `?` returns the error of the second OpenProcess
         [ok |-> FALSE, err |-> "Other", raw |-> 0, process_id |-> value,
          calls |-> <<ACCESS_FIRST, ACCESS_SECOND>>]
    ELSE IF is_invalid(a2.h)
    THEN \* line 110
         [ok |-> FALSE, err |-> "Other", raw |-> 0, process_id |-> value,
          calls |-> <<ACCESS_FIRST, ACCESS_SECOND>>]
    ELSE [ok |-> TRUE, err |-> "", raw |-> a2.h, process_id |-> value,
          calls |-> <<ACCESS_FIRST, ACCESS_SECOND>>]

\* Handle values the OS opened during a call that issued `calls` requests and
\* got the answers a1, a2.
Opened(calls, a1, a2) ==
    {a.h : a \in {b \in {[h |-> a1.h, k |-> 1, ok |-> a1.ok], [h |-> a2.h, k |-> 2, ok |-> a2.ok]} :
                    b.k <= Len(calls) /\ b.ok /\ ~is_invalid(b.h)}}

\* What the caller saw of an answer, and the answers seen in call order.
Kind(a) == IF ~a.ok THEN "err" ELSE IF is_invalid(a.h) THEN "invalid" ELSE "valid"
Seen(calls, a1, a2) == IF Len(calls) = 1 THEN <<Kind(a1)>> ELSE <<Kind(a1), Kind(a2)>>

\* One execution of try_from(value) against the OS, storing the Handle on
\* success in slot i.  unwrap: the caller unwraps the result (panics on Err).
OpenInto(i, value, op, unwrap) ==
    \E a1 \in OpenProcessAnswers(value, os_next) :
      \E a2 \in OpenProcessAnswers(value, IF a1.ok /\ ~is_invalid(a1.h) THEN os_next + 1 ELSE os_next) :
        LET r == try_from(value, a1, a2)
            opened == Opened(r.calls, a1, a2)
        IN  /\ os_next + Cardinality(opened) <= SnapBase + 1
            /\ os_open' = os_open \cup opened
            /\ os_next' = os_next + Cardinality(opened)
            /\ handle' = IF r.ok
                         THEN [handle EXCEPT ![i] = [st |-> "live", raw |-> r.raw,
                                                     process_id |-> r.process_id, req |-> value]]
                         ELSE handle
            /\ panicked' = (unwrap /\ ~r.ok)
            /\ last' = [op |-> op, ok |-> r.ok, id |-> IF r.ok THEN i ELSE 0, pid |-> value,
                        calls |-> r.calls, answers |-> Seen(r.calls, a1, a2),
                        ret |-> IF r.ok THEN <<"Ok">> ELSE <<"Err", r.err>>]

\* Handle::try_from(value), lines 94-121.
Acquire ==
    /\ ~panicked
    /\ \E i \in FreeIds(handle, HandleIds), value \in Pids : OpenInto(i, value, "try_from", FALSE)
    /\ UNCHANGED <<snap, moditer, memiter, os_closes, toolhelp, vm_end>>

\* Handle::default(), lines 72-76: the identifier handed to try_from, given
\* what GetCurrentProcessId() returned; the result is unwrapped.
\* Faulty variant: another identifier is handed on.
Handle_default_other(current) == current + 1

Handle_default(current) == current

Default ==
    /\ ~panicked
    /\ \E i \in FreeIds(handle, HandleIds) :
          OpenInto(i, Handle_default(GetCurrentProcessId), "default", TRUE)
    /\ UNCHANGED <<snap, moditer, memiter, os_closes, toolhelp, vm_end>>

\* Handle::get_process_id, lines 49-51, and HandleSnapshot::get_process_id,
\* lines 131-133.
Handle_get_process_id(self) == self.process_id
HandleSnapshot_get_process_id(self) == self.process_id

\* ------------------------------------------------------- Drop, CloseHandle
\* impl Drop for Handle, lines 86-92: the CloseHandle calls drop issues.

\* Faulty variant: drop never closes.
Handle_drop_never(raw) == <<>>

\* Faulty variant: drop closes without the is_invalid test of line 88.
Handle_drop_always(raw) == <<raw>>

Handle_drop(raw) == IF ~is_invalid(raw) THEN <<raw>> ELSE <<>>

\* Line 89, `let _ = CloseHandle(..)`: what drop does with the result of the
\* call ("ok" or "err"): the result is bound to `_` and discarded.
\* Faulty variant: the result is unwrapped.
Handle_drop_result_unwrap(result) == IF result = "err" THEN "panic" ELSE "unit"

Handle_drop_result(result) == "unit"

\* impl Drop for HandleSnapshot, lines 152-158.
HandleSnapshot_drop(raw) == IF ~is_invalid(raw) THEN <<raw>> ELSE <<>>

\* Line 155, `let _ = CloseHandle(..)`.
HandleSnapshot_drop_result(result) == "unit"

\* OS side of a sequence of CloseHandle calls: a call on an open handle
\* releases it and reports success, a call on any other value reports failure.
RECURSIVE CloseAll(_, _)
CloseAll(open, hs) ==
    IF hs = <<>> THEN [open |-> open, results |-> <<>>]
    ELSE LET rest == CloseAll(open \ {Head(hs)}, Tail(hs))
         IN  [open |-> rest.open,
              results |-> <<IF Head(hs) \in open THEN "ok" ELSE "err">> \o rest.results]

RECURSIVE Count(_, _)
Count(hs, v) == IF hs = <<>> THEN 0 ELSE (IF Head(hs) = v THEN 1 ELSE 0) + Count(Tail(hs), v)

CloseCalls(hs) ==
    /\ os_open' = CloseAll(os_open, hs).open
    /\ os_closes' = [v \in RawVals |-> os_closes[v] + Count(hs, v)]

\* A Handle goes out of scope.  The borrow checker rejects a drop while a
\* memory iterator still borrows the Handle.
DropHandle ==
    /\ ~panicked
    /\ \E i \in HandleIds :
        /\ handle[i].st = "live"
        /\ \A m \in MemIterIds : ~(memiter[m].st = "live" /\ memiter[m].handle = i)
        /\ LET hs == Handle_drop(handle[i].raw)
               results == CloseAll(os_open, hs).results
               panic == \E k \in DOMAIN results : Handle_drop_result(results[k]) = "panic"
           IN  /\ CloseCalls(hs)
               /\ panicked' = panic
               /\ last' = [op |-> "drop_handle", ok |-> ~panic, id |-> i,
                           pid |-> handle[i].process_id, calls |-> hs,
                           answers |-> results, ret |-> None]
        /\ handle' = [handle EXCEPT ![i].st = "dropped"]
    /\ UNCHANGED <<snap, moditer, memiter, os_next, toolhelp, vm_end>>

\* A HandleSnapshot goes out of scope (no module iterator borrows it).
DropSnapshot ==
    /\ ~panicked
    /\ \E s \in SnapIds :
        /\ snap[s].st = "live"
        /\ \A m \in ModIterIds : ~(moditer[m].st = "live" /\ moditer[m].handle = s)
        /\ LET hs == HandleSnapshot_drop(snap[s].raw)
               results == CloseAll(os_open, hs).results
               panic == \E k \in DOMAIN results : HandleSnapshot_drop_result(results[k]) = "panic"
           IN  /\ CloseCalls(hs)
               /\ panicked' = panic
               /\ last' = [op |-> "drop_snapshot", ok |-> ~panic, id |-> s,
                           pid |-> snap[s].process_id, calls |-> hs,
                           answers |-> results, ret |-> None]
        /\ snap' = [snap EXCEPT ![s].st = "dropped"]
    /\ UNCHANGED <<handle, moditer, memiter, os_next, toolhelp, vm_end>>

\* ------------------------------------------------ Handle::create_snapshot
\* HandleSnapshotFlag, lines 22-33, as sets of bit positions.
Inherit == {31}
SnapHeapList == {0}
SnapModule == {3}
SnapModule32 == {4}
SnapProcess == {1}
SnapThread == {2}
SnapAll == Inherit \cup SnapHeapList \cup SnapModule \cup SnapModule32 \cup SnapProcess \cup SnapThread
Flags == {SnapAll, SnapModule, SnapThread}

\* lines 54-61: self is the Handle's fields, a the OS answer.

\* Faulty variant: the snapshot stores the Handle's own raw handle.
create_snapshot_alias(self, a) ==
    IF ~a.ok THEN [ok |-> FALSE, err |-> "Other", raw |-> 0, process_id |-> self.process_id]
    ELSE [ok |-> TRUE, err |-> "", raw |-> self.raw, process_id |-> self.process_id]

\* Faulty variant: a declined creation is not returned as an error (no `?`
\* on line 57); the snapshot is built around the null handle.
create_snapshot_unchecked(self, a) ==
    IF ~a.ok THEN [ok |-> TRUE, err |-> "", raw |-> 0, process_id |-> self.process_id]
    ELSE [ok |-> TRUE, err |-> "", raw |-> a.h, process_id |-> self.process_id]

create_snapshot(self, a) ==
    IF ~a.ok THEN [ok |-> FALSE, err |-> "Other", raw |-> 0, process_id |-> self.process_id]
    ELSE [ok |-> TRUE, err |-> "", raw |-> a.h, process_id |-> self.process_id]

CreateSnapshot ==
    /\ ~panicked
    /\ \E i \in HandleIds, s \in FreeIds(snap, SnapIds), flag \in Flags :
        /\ handle[i].st = "live"
        /\ \E a \in CreateSnapshotAnswers(SnapBase + s),
              n \in IF flag \cap (SnapModule \cup SnapModule32) # {} THEN 0..MaxModules ELSE {0} :
            LET r == create_snapshot(handle[i], a)
            IN  /\ os_open' = IF a.ok THEN os_open \cup {a.h} ELSE os_open
                /\ toolhelp' = IF a.ok THEN [toolhelp EXCEPT ![a.h] = [count |-> n, index |-> 0]]
                               ELSE toolhelp
                /\ snap' = IF r.ok
                           THEN [snap EXCEPT ![s] = [st |-> "live", raw |-> r.raw,
                                                     process_id |-> r.process_id, from |-> i]]
                           ELSE snap
                /\ last' = [op |-> "create_snapshot", ok |-> r.ok, id |-> IF r.ok THEN s ELSE 0,
                            pid |-> handle[i].process_id, calls |-> <<flag>>,
                            answers |-> <<Kind(a)>>,
                            ret |-> IF r.ok THEN <<"Ok">> ELSE <<"Err", r.err>>]
    /\ UNCHANGED <<handle, moditer, memiter, os_closes, os_next, vm_end, panicked>>

\* ------------------------------------------- HandleSnapshot::get_modules
\* lines 136-141: the iterator borrows snapshot s; no OS call.

\* Faulty variant: the iterator starts as if Module32FirstW had been called.
get_modules_started(s) == [st |-> "live", handle |-> s, is_first |-> FALSE, yields |-> 0, nones |-> 0]

get_modules(s) == [st |-> "live", handle |-> s, is_first |-> TRUE, yields |-> 0, nones |-> 0]

GetModules ==
    /\ ~panicked
    /\ \E s \in SnapIds, m \in FreeIds(moditer, ModIterIds) :
        /\ snap[s].st = "live"
        /\ moditer' = [moditer EXCEPT ![m] = get_modules(s)]
        /\ last' = [op |-> "get_modules", ok |-> TRUE, id |-> m, pid |-> snap[s].process_id,
                    calls |-> <<>>, answers |-> <<>>, ret |-> None]
    /\ UNCHANGED <<handle, snap, memiter, os_open, os_closes, os_next, toolhelp, vm_end, panicked>>

\* OS side of the toolhelp enumeration.  A snapshot t holds the captured
\* modules 1..t.count and one enumeration index shared by every caller.
\* Module32FirstW rewinds to the first module, Module32NextW advances; both
\* fail (ERROR_NO_MORE_FILES) when there is no such module.
Module32FirstW(t) ==
    IF t.count = 0 THEN [ok |-> FALSE, module |-> 0, t |-> t]
    ELSE [ok |-> TRUE, module |-> 1, t |-> [t EXCEPT !.index = 1]]

Module32NextW(t) ==
    IF t.index < t.count
    THEN [ok |-> TRUE, module |-> t.index + 1, t |-> [t EXCEPT !.index = t.index + 1]]
    ELSE [ok |-> FALSE, module |-> 0, t |-> t]

\* HandleSnapshotModuleIter::next, lines 169-203.  first, nxt: what the OS
\* answers to Module32FirstW / Module32NextW if called now.  The result names
\* the call that was issued.

\* Faulty variant: every pull calls Module32FirstW.
HandleSnapshotModuleIter_next_always_first(self, first, nxt) ==
    IF first.ok
    THEN [is_first |-> FALSE, ret |-> Some(first.module), call |-> "Module32FirstW"]
    ELSE [is_first |-> self.is_first, ret |-> None, call |-> "Module32FirstW"]

HandleSnapshotModuleIter_next(self, first, nxt) ==
    IF self.is_first
    THEN IF first.ok
         THEN [is_first |-> FALSE, ret |-> Some(first.module), call |-> "Module32FirstW"]
         ELSE [is_first |-> self.is_first, ret |-> None, call |-> "Module32FirstW"]
    ELSE IF nxt.ok
         THEN [is_first |-> self.is_first, ret |-> Some(nxt.module), call |-> "Module32NextW"]
         ELSE [is_first |-> self.is_first, ret |-> None, call |-> "Module32NextW"]

ModNextOf(m) ==
    /\ ~panicked
    /\ moditer[m].st = "live"
    /\ moditer[m].yields + moditer[m].nones < MaxModPulls
    /\ LET raw == snap[moditer[m].handle].raw
           first == Module32FirstW(toolhelp[raw])
           nxt == Module32NextW(toolhelp[raw])
           r == HandleSnapshotModuleIter_next(moditer[m], first, nxt)
           ans == IF r.call = "Module32FirstW" THEN first ELSE nxt
       IN  /\ toolhelp' = [toolhelp EXCEPT ![raw] = ans.t]
           /\ moditer' = [moditer EXCEPT
                            ![m].is_first = r.is_first,
                            ![m].yields = IF r.ret # None THEN @ + 1 ELSE @,
                            ![m].nones = IF r.ret = None THEN @ + 1 ELSE @]
           /\ last' = [op |-> "mod_next", ok |-> r.ret # None, id |-> m,
                       pid |-> snap[moditer[m].handle].process_id,
                       calls |-> <<r.call>>, answers |-> <<IF ans.ok THEN "ok" ELSE "err">>,
                       ret |-> r.ret]
    /\ UNCHANGED <<handle, snap, memiter, os_open, os_closes, os_next, vm_end, panicked>>

ModNext == \E m \in ModIterIds : ModNextOf(m)

\* A module iterator goes out of scope: it owns nothing, no Drop impl.
DropModIter ==
    /\ ~panicked
    /\ \E m \in ModIterIds :
        /\ moditer[m].st = "live"
        /\ moditer' = [moditer EXCEPT ![m] = [NoModIter EXCEPT !.st = "dropped",
                                                                 !.handle = moditer[m].handle]]
        /\ last' = [op |-> "drop_moditer", ok |-> TRUE, id |-> m,
                    pid |-> snap[moditer[m].handle].process_id, calls |-> <<>>, answers |-> <<>>, ret |-> None]
    /\ UNCHANGED <<handle, snap, memiter, os_open, os_closes, os_next, toolhelp, vm_end, panicked>>

\* --------------------------------- Handle::get_memory_basic_informations
\* lines 64-69: the iterator borrows Handle i; no OS call.
get_memory_basic_informations(i) ==
    [st |-> "live", handle |-> i, current_address |-> None, prev |-> None, nones |-> 0]

GetMemoryBasicInformations ==
    /\ ~panicked
    /\ \E i \in HandleIds, m \in FreeIds(memiter, MemIterIds) :
        /\ handle[i].st = "live"
        /\ memiter' = [memiter EXCEPT ![m] = get_memory_basic_informations(i)]
        /\ last' = [op |-> "get_memory_basic_informations", ok |-> TRUE, id |-> m,
                    pid |-> handle[i].process_id, calls |-> <<>>, answers |-> <<>>, ret |-> None]
    /\ UNCHANGED <<handle, snap, moditer, os_open, os_closes, os_next, toolhelp, vm_end, panicked>>

\* OS side of VirtualQueryEx(h, lpAddress): lpAddress None is the null
\* address.  Below the end of the addressable range the OS describes the
\* region that starts at the queried page and extends over the following pages
\* with the same attributes (any length up to the end of the range, the target
\* being a live process); at or above the end it returns 0.
VirtualQueryExAnswers(lpAddress) ==
    LET addr == IF lpAddress = None THEN 0 ELSE lpAddress[1]
    IN  IF addr < vm_end
        THEN {[n |-> 1, BaseAddress |-> addr, RegionSize |-> size] : size \in 1..(vm_end - addr)}
        ELSE {[n |-> 0, BaseAddress |-> 0, RegionSize |-> 0]}

unwrap_or(opt, d) == IF opt = None THEN d ELSE opt[1]

\* HandleMemoryBasicInformationIter::next, lines 215-246.  mbi: the OS answer.
\* The usize addition of line 240 overflows at Top: `wraps` tells whether the
\* build wraps (release) or panics (debug).

\* Faulty variant: a failed query rewinds the cursor to the start.
HandleMemoryBasicInformationIter_next_rewind(self, mbi, wraps) ==
    IF mbi.n # 0
    THEN LET sum == mbi.RegionSize + unwrap_or(self.current_address, 0)
         IN  IF sum >= Top /\ ~wraps
             THEN [current_address |-> self.current_address, ret |-> None, panic |-> TRUE]
             ELSE [current_address |-> Some(sum % Top), panic |-> FALSE,
                   ret |-> Some([base |-> mbi.BaseAddress, size |-> mbi.RegionSize])]
    ELSE [current_address |-> None, ret |-> None, panic |-> FALSE]

HandleMemoryBasicInformationIter_next(self, mbi, wraps) ==
    IF mbi.n # 0
    THEN LET sum == mbi.RegionSize + unwrap_or(self.current_address, 0)
         IN  IF sum >= Top /\ ~wraps
             THEN [current_address |-> self.current_address, ret |-> None, panic |-> TRUE]
             ELSE [current_address |-> Some(sum % Top), panic |-> FALSE,
                   ret |-> Some([base |-> mbi.BaseAddress, size |-> mbi.RegionSize])]
    ELSE [current_address |-> self.current_address, ret |-> None, panic |-> FALSE]

MemNextOf(m) ==
    /\ ~panicked
    /\ memiter[m].st = "live"
    /\ memiter[m].nones < MaxNonePulls
    /\ \E mbi \in VirtualQueryExAnswers(memiter[m].current_address), wraps \in BOOLEAN :
        LET r == HandleMemoryBasicInformationIter_next(memiter[m], mbi, wraps)
        IN  /\ panicked' = r.panic
            /\ memiter' = [memiter EXCEPT
                             ![m].current_address = r.current_address,
                             ![m].prev = IF r.ret # None THEN r.ret ELSE @,
                             ![m].nones = IF r.ret = None /\ ~r.panic THEN @ + 1 ELSE @]
            /\ last' = [op |-> "mem_next", ok |-> r.ret # None, id |-> m,
                        pid |-> handle[memiter[m].handle].process_id,
                        calls |-> <<memiter[m].current_address>>,
                        answers |-> <<IF mbi.n # 0 THEN "ok" ELSE "err">>, ret |-> r.ret]
    /\ UNCHANGED <<handle, snap, moditer, os_open, os_closes, os_next, toolhelp, vm_end>>

MemNext == \E m \in MemIterIds : MemNextOf(m)

\* A memory iterator goes out of scope: it owns nothing, no Drop impl.
DropMemIter ==
    /\ ~panicked
    /\ \E m \in MemIterIds :
        /\ memiter[m].st = "live"
        /\ memiter' = [memiter EXCEPT ![m] = [NoMemIter EXCEPT !.st = "dropped",
                                                                 !.handle = memiter[m].handle]]
        /\ last' = [op |-> "drop_memiter", ok |-> TRUE, id |-> m,
                    pid |-> handle[memiter[m].handle].process_id, calls |-> <<>>, answers |-> <<>>, ret |-> None]
    /\ UNCHANGED <<handle, snap, moditer, os_open, os_closes, os_next, toolhelp, vm_end, panicked>>

\* ------------------------------------------------------- specifications
InitProgram ==
    /\ handle = [i \in HandleIds |-> NoHandle]
    /\ snap = [i \in SnapIds |-> NoSnap]
    /\ moditer = [i \in ModIterIds |-> NoModIter]
    /\ memiter = [i \in MemIterIds |-> NoMemIter]
    /\ os_open = {}
    /\ os_closes = [v \in RawVals |-> 0]
    /\ os_next = 1
    /\ toolhelp = [v \in RawVals |-> [count |-> 0, index |-> 0]]
    /\ panicked = FALSE
    /\ last = NoLast

\* The addressable range of a target ends anywhere up to the top of the
\* machine word of the build: a 64-bit build never sees a region that reaches
\* the top, a 32-bit build does when the target's last region ends at 4 GiB
\* (a large-address-aware process under a 64-bit system).  Only the
\* memory-region enumeration reads vm_end; the other specifications fix it to
\* a range of two pages.
InitAnyEnd == InitProgram /\ vm_end \in 1..Top

Init == InitProgram /\ vm_end = 2

\* Handles and snapshots: construction and destruction.
Next ==
    \/ Acquire
    \/ Default
    \/ CreateSnapshot
    \/ DropHandle
    \/ DropSnapshot

Spec == Init /\ [][Next]_vars

\* Module enumeration: a program that opens its own process once, takes
\* snapshots of it and enumerates their modules.
NoHandleYet == \A i \in HandleIds : handle[i].st = "none"

NextMod ==
    \/ NoHandleYet /\ Default
    \/ CreateSnapshot
    \/ GetModules
    \/ ModNext
    \/ DropModIter
    \/ DropSnapshot
    \/ DropHandle

SpecMod == Init /\ [][NextMod]_vars

\* Memory-region enumeration: a program that acquires one process and walks
\* its address space.
NextMem ==
    \/ NoHandleYet /\ Acquire
    \/ GetMemoryBasicInformations
    \/ MemNext
    \/ DropMemIter
    \/ DropHandle

SpecMem == InitAnyEnd /\ [][NextMem]_vars

\* Everything that takes a Handle by reference: a program that acquires one
\* process, takes snapshots of it and walks its address space.
NextUse ==
    \/ NoHandleYet /\ Acquire
    \/ CreateSnapshot
    \/ GetMemoryBasicInformations
    \/ MemNext
    \/ DropMemIter
    \/ DropSnapshot

SpecUse == Init /\ [][NextUse]_vars

\* A program that acquires one process and runs `for` loops over its memory
\* regions, one loop at a time: a loop keeps calling next until it returns
\* None, or leaves early and drops the iterator.
NoLiveMemIter == \A m \in MemIterIds : memiter[m].st # "live"

NextLoop ==
    \/ NoHandleYet /\ Acquire
    \/ NoLiveMemIter /\ GetMemoryBasicInformations
    \/ MemNext
    \/ DropMemIter

SpecMemLive == InitAnyEnd /\ [][NextLoop]_vars /\ \A m \in MemIterIds : WF_vars(MemNextOf(m))

\* ---------------------------------------------------------------- owners
LiveHandles == {i \in HandleIds : handle[i].st = "live"}
DroppedHandles == {i \in HandleIds : handle[i].st = "dropped"}
LiveSnaps == {s \in SnapIds : snap[s].st = "live"}
DroppedSnaps == {s \in SnapIds : snap[s].st = "dropped"}
\* The handle values stored in an owner, live or destroyed.
StoredRaws(st) == {handle[i].raw : i \in {j \in HandleIds : handle[j].st = st}}
                    \cup {snap[s].raw : s \in {t \in SnapIds : snap[t].st = st}}

\* C1: every OS handle stored in a Handle or HandleSnapshot receives exactly
\* one CloseHandle call, at the destruction of its owner: while the owner
\* lives the handle is open and was never closed, once the owner is destroyed
\* it was closed once and is no longer open, no handle value is closed twice,
\* no two owners hold the same handle, and nothing else is open.
C1_ClosedExactlyOnce ==
    /\ \A v \in RawVals : os_closes[v] <= 1
    /\ \A v \in StoredRaws("live") : v \in os_open /\ os_closes[v] = 0
    /\ \A v \in StoredRaws("dropped") : v \notin os_open /\ os_closes[v] = 1
    /\ os_open = StoredRaws("live")
    /\ \A i \in LiveHandles \cup DroppedHandles, s \in LiveSnaps \cup DroppedSnaps :
          handle[i].raw # snap[s].raw
    /\ \A i, j \in LiveHandles \cup DroppedHandles : i # j => handle[i].raw # handle[j].raw

C1_Witness ==
    /\ \E i \in DroppedHandles : os_closes[handle[i].raw] = 1
    /\ \E s \in DroppedSnaps : os_closes[snap[s].raw] = 1
    /\ \E i \in LiveHandles : handle[i].raw \in os_open

\* C2: a failed acquire returns the generic failure, creates no Handle and
\* leaves the set of open OS handles as it was, whatever came before it; none
\* of the answers it saw was a valid handle.
C2_FailedAcquireLeaksNothing ==
    [][(last'.op = "try_from" /\ ~last'.ok) =>
          /\ last'.ret = <<"Err", "Other">>
          /\ handle' = handle
          /\ os_open' = os_open
          /\ os_next' = os_next
          /\ \A k \in DOMAIN last'.answers : last'.answers[k] # "valid"]_vars

C2_Witness ==
    /\ last.op = "try_from" /\ ~last.ok /\ last.pid = 0
    /\ last.answers = <<"invalid", "err">>
    /\ LiveHandles # {}

\* C3: whenever the first OpenProcess is rejected or returns an invalid
\* handle, acquire issues exactly one more request, with the reduced access,
\* and it succeeds whenever that second request returns a valid handle.
C3_FallbackPolicy ==
    last.op = "try_from" =>
        /\ last.calls[1] = ACCESS_FIRST
        /\ last.answers[1] # "valid" =>
              /\ last.calls = <<ACCESS_FIRST, ACCESS_SECOND>>
              /\ last.answers[2] = "valid" => last.ok

\* C4: a Handle acquired for process identifier p reports p, also after
\* snapshots were created from it and its memory regions were enumerated.
C4_ProcessIdIsRequested ==
    \A i \in LiveHandles : Handle_get_process_id(handle[i]) = handle[i].req

C4_Witness ==
    \E i \in LiveHandles, s \in LiveSnaps, m \in MemIterIds :
        /\ handle[i].req = 2
        /\ snap[s].from = i
        /\ memiter[m].st = "live" /\ memiter[m].handle = i
        /\ memiter[m].prev # None /\ memiter[m].nones > 0

\* C5: Handle::default() succeeds, without a panic, and the Handle it
\* returns reports the identifier of the calling process.
C5_DefaultIsOwnProcess ==
    last.op = "default" =>
        /\ last.ok
        /\ ~panicked
        /\ handle[last.id].st = "live"
        /\ Handle_get_process_id(handle[last.id]) = GetCurrentProcessId

C5_Witness ==
    /\ last.op = "default" /\ last.ok
    /\ Cardinality(LiveHandles) = 2

\* ------------------------------------------------------ module iteration
SnapOf(m) == snap[moditer[m].handle]
\* m is the only iterator ever obtained from its snapshot.
OnlyIteratorOf(m) ==
    \A j \in ModIterIds \ {m} : moditer[j].st = "none" \/ moditer[j].handle # moditer[m].handle
\* The step is a pull on module iterator m.
ModPull(m) == last'.op = "mod_next" /\ last'.id = m /\ moditer[m].st = "live"

\* C6: the k-th pull on the only iterator of a snapshot that captured N
\* modules returns module k for k <= N and None for k > N.
C6_YieldsEachModuleInOrder ==
    [][\A m \in ModIterIds :
          (ModPull(m) /\ OnlyIteratorOf(m)) =>
              /\ moditer[m].yields < toolhelp[SnapOf(m).raw].count =>
                    /\ moditer[m].nones = 0
                    /\ last'.ret = Some(moditer[m].yields + 1)
              /\ moditer[m].yields >= toolhelp[SnapOf(m).raw].count =>
                    /\ moditer[m].yields = toolhelp[SnapOf(m).raw].count
                    /\ last'.ret = None]_vars

C6_Witness ==
    \E m \in ModIterIds :
        /\ moditer[m].st = "live" /\ OnlyIteratorOf(m)
        /\ toolhelp[SnapOf(m).raw].count = 2
        /\ moditer[m].yields = 2 /\ moditer[m].nones = 2

\* C7: once a pull on a module iterator has returned None, every later
\* pull on that iterator returns None.
C7_NoneIsTerminal ==
    [][\A m \in ModIterIds :
          (ModPull(m) /\ moditer[m].nones > 0) => last'.ret = None]_vars

\* ------------------------------------------------------ memory iteration
\* The step is a pull on memory iterator m.
MemPull(m) == last'.op = "mem_next" /\ last'.id = m /\ memiter[m].st = "live"

\* C8: the first region an iterator yields starts at address 0, and every
\* further region starts where the region yielded before it ended, at a
\* strictly greater address.
C8_RegionsAreContiguous ==
    [][\A m \in MemIterIds :
          (MemPull(m) /\ last'.ret # None) =>
              LET r == last'.ret[1]
                  p == memiter[m].prev
              IN  /\ r.size > 0
                  /\ p = None => r.base = 0
                  /\ p # None => r.base = p[1].base + p[1].size /\ r.base > p[1].base]_vars

\* C9: an iterator that is pulled again and again returns None after
\* finitely many pulls (unless it is dropped first), and no pull panics: the
\* end is an ordinary None.
C9_EnumerationEnds ==
    /\ \A m \in MemIterIds :
          (memiter[m].st = "live") ~> (memiter[m].st = "dropped" \/ memiter[m].nones > 0)
    /\ [](~panicked)

\* ------------------------------------------------------ create_snapshot
\* C10: a successful create_snapshot opens exactly one new OS handle, which
\* the new HandleSnapshot holds together with the Handle's process
\* identifier, and changes no Handle; destroying a snapshot closes no
\* Handle's OS handle and destroying a Handle closes no snapshot's.
C10_SnapshotIsIndependent ==
    [][/\ (last'.op = "create_snapshot" /\ last'.ok) =>
            LET s == last'.id
            IN  /\ snap[s].st = "none" /\ snap'[s].st = "live"
                /\ os_open \subseteq os_open'
                /\ os_open' \ os_open = {snap'[s].raw}
                /\ HandleSnapshot_get_process_id(snap'[s])
                      = Handle_get_process_id(handle[snap'[s].from])
                /\ handle' = handle
       /\ last'.op = "drop_snapshot" =>
            /\ handle' = handle
            /\ \A i \in LiveHandles : handle[i].raw \in os_open' /\ os_closes'[handle[i].raw] = 0
       /\ last'.op = "drop_handle" =>
            /\ snap' = snap
            /\ \A s \in LiveSnaps : snap[s].raw \in os_open' /\ os_closes'[snap[s].raw] = 0]_vars

C10_Witness ==
    \E s \in LiveSnaps :
        /\ handle[snap[s].from].st = "dropped"
        /\ snap[s].raw \in os_open
        /\ HandleSnapshot_get_process_id(snap[s]) = 2
        /\ last.op = "drop_handle" /\ last.id = snap[s].from

\* C11: when CreateToolhelp32Snapshot is declined, create_snapshot returns
\* Err(ErrorKind::Other), no HandleSnapshot comes into being, the OS receives
\* no CloseHandle call and opens nothing, and every Handle, the originating
\* one included, is unchanged, live and still open.
C11_DeclinedSnapshotLeavesHandle ==
    [][(last'.op = "create_snapshot" /\ last'.answers = <<"err">>) =>
          /\ ~last'.ok
          /\ last'.ret = <<"Err", "Other">>
          /\ snap' = snap
          /\ os_closes' = os_closes
          /\ os_open' = os_open
          /\ handle' = handle
          /\ ~panicked'
          /\ \E i \in LiveHandles :
                /\ Handle_get_process_id(handle'[i]) = last'.pid
                /\ handle'[i].st = "live"
                /\ ~is_invalid(handle'[i].raw)
                /\ handle'[i].raw \in os_open']_vars

C11_Witness ==
    /\ last.op = "create_snapshot" /\ ~last.ok /\ last.pid = 2
    /\ \E i \in LiveHandles : handle[i].process_id = 2 /\ handle[i].raw \in os_open
    /\ LiveSnaps = {} /\ DroppedSnaps = {}

\* ------------------------------------------------- close failure on drop
\* impl Deref for Handle, lines 78-84, and for HandleSnapshot, lines 144-150,
\* hand the stored HANDLE to any caller, who can pass it to CloseHandle.  The
\* OS releases the handle while its owner still stores the value, so the
\* CloseHandle of the owner's drop reports failure.
DerefClose ==
    /\ ~panicked
    /\ \E v \in StoredRaws("live") \cap os_open :
        /\ CloseCalls(<<v>>)
        /\ last' = [op |-> "deref_close", ok |-> TRUE, id |-> 0, pid |-> 0, calls |-> <<v>>,
                    answers |-> CloseAll(os_open, <<v>>).results, ret |-> None]
    /\ UNCHANGED <<handle, snap, moditer, memiter, os_next, toolhelp, vm_end, panicked>>

\* A program that acquires one process, takes snapshots, and whose callers
\* may close a dereferenced handle behind the owner's back.
NextClose ==
    \/ NoHandleYet /\ Acquire
    \/ CreateSnapshot
    \/ DerefClose
    \/ DropHandle
    \/ DropSnapshot

SpecClose == Init /\ [][NextClose]_vars

\* C12: the destruction of a Handle or HandleSnapshot completes normally
\* whatever CloseHandle reports: no panic and nothing returned, the owner is
\* gone, at most one CloseHandle call was issued (no retry after a failure),
\* and a failed close changes nothing in the OS handle table.
C12_CloseFailureIsDiscarded ==
    [][(last'.op \in {"drop_handle", "drop_snapshot"}) =>
          /\ ~panicked'
          /\ last'.ok /\ last'.ret = None
          /\ Len(last'.calls) <= 1
          /\ Len(last'.answers) = Len(last'.calls)
          /\ \A v \in RawVals : os_closes'[v] <= os_closes[v] + 1
          /\ last'.op = "drop_handle" => handle'[last'.id].st = "dropped"
          /\ last'.op = "drop_snapshot" => snap'[last'.id].st = "dropped"
          /\ last'.answers = <<"err">> => os_open' = os_open
          /\ last'.answers = <<"ok">> => os_open' = os_open \ {last'.calls[1]}]_vars

C12_Witness ==
    /\ \E i \in DroppedHandles : os_closes[handle[i].raw] = 2
    /\ \E s \in DroppedSnaps : os_closes[snap[s].raw] = 2
    /\ last.op = "drop_handle" /\ last.answers = <<"err">>
    /\ ~panicked

\* ------------------------------------------------ module iteration, again
\* C13: on every module iterator the first pull calls Module32FirstW and
\* every later pull calls Module32NextW, so Module32FirstW is called at most
\* once per iterator, whatever the calls answer.
C13_FirstQueriedOnce ==
    [][\A m \in ModIterIds :
          ModPull(m) =>
              last'.calls = <<IF moditer[m].yields + moditer[m].nones = 0
                              THEN "Module32FirstW" ELSE "Module32NextW">>]_vars

\* ------------------------------------------- drop of any stored value
\* Drop::drop as a function of the stored field: the owners hold any HANDLE
\* value, the two invalid sentinels included (no constructor of this file
\* stores a sentinel; the test of lines 88 and 154 is what covers one).  A
\* valid stored value is an open handle.
InitDrop ==
    /\ handle \in [HandleIds -> {[st |-> "live", raw |-> r, process_id |-> GetCurrentProcessId,
                                  req |-> GetCurrentProcessId] : r \in {0, -1} \cup HandleIds}]
    /\ \A i \in HandleIds : handle[i].raw \in {0, -1, i}
    /\ snap \in [SnapIds -> {[st |-> "live", raw |-> r, process_id |-> GetCurrentProcessId,
                              from |-> 1] : r \in {0, -1} \cup {SnapBase + t : t \in SnapIds}}]
    /\ \A t \in SnapIds : snap[t].raw \in {0, -1, SnapBase + t}
    /\ moditer = [i \in ModIterIds |-> NoModIter]
    /\ memiter = [i \in MemIterIds |-> NoMemIter]
    /\ os_open = {v \in RawVals : v \in StoredRaws("live")}
    /\ os_closes = [v \in RawVals |-> 0]
    /\ os_next = SnapBase
    /\ toolhelp = [v \in RawVals |-> [count |-> 0, index |-> 0]]
    /\ vm_end = 2
    /\ panicked = FALSE
    /\ last = NoLast

NextDrop ==
    \/ DropHandle
    \/ DropSnapshot

SpecDrop == InitDrop /\ [][NextDrop]_vars

\* C14: the destruction of a Handle or HandleSnapshot whose stored value is
\* valid issues one CloseHandle call, on that value; the destruction of one
\* whose stored value is an invalid sentinel issues no OS call and leaves the
\* OS handle table untouched.
C14_ClosesIffValid ==
    [][LET raw == IF last'.op = "drop_handle" THEN handle[last'.id].raw ELSE snap[last'.id].raw
       IN  (last'.op \in {"drop_handle", "drop_snapshot"}) =>
              /\ is_invalid(raw) =>
                    /\ last'.calls = <<>>
                    /\ os_open' = os_open
                    /\ os_closes' = os_closes
              /\ ~is_invalid(raw) =>
                    /\ Len(last'.calls) = 1 /\ last'.calls[1] = raw
                    /\ os_closes' = [os_closes EXCEPT ![raw] = @ + 1]
                    /\ os_open' = os_open \ {raw}]_vars

C14_Witness ==
    /\ LiveHandles = {} /\ LiveSnaps = {}
    /\ handle[1].raw = 0 /\ handle[2].raw = 2 /\ os_closes[2] = 1
    /\ \E s \in DroppedSnaps : snap[s].raw = -1
    /\ \A v \in RawVals \ {2} : os_closes[v] = 0
    /\ os_open = {}

\* ------------------------------------------------------- lazy iterators
\* A program that opens its own process, takes a snapshot and runs loops
\* over its modules and over its memory regions, one loop of each kind at a
\* time.
NoLiveModIter == \A m \in ModIterIds : moditer[m].st # "live"

NextIter ==
    \/ NoHandleYet /\ Default
    \/ CreateSnapshot
    \/ NoLiveModIter /\ GetModules
    \/ ModNext
    \/ DropModIter
    \/ NoLiveMemIter /\ GetMemoryBasicInformations
    \/ MemNext
    \/ DropMemIter

SpecIter == Init /\ [][NextIter]_vars

IterOps == {"get_modules", "mod_next", "drop_moditer",
            "get_memory_basic_informations", "mem_next", "drop_memiter"}

\* C15: get_modules and get_memory_basic_informations issue no OS call and
\* change nothing in the handles, the snapshots or the OS; the first pull on
\* an iterator issues the first query (Module32FirstW, resp. VirtualQueryEx at
\* the null address), every pull issues exactly one query, and no iterator
\* operation opens or closes an OS handle.
C15_IteratorsAreLazy ==
    [][/\ last'.op \in {"get_modules", "get_memory_basic_informations"} =>
            /\ last'.calls = <<>>
            /\ handle' = handle /\ snap' = snap
            /\ os_next' = os_next /\ toolhelp' = toolhelp /\ vm_end' = vm_end
       /\ \A m \in ModIterIds :
            ModPull(m) =>
                /\ Len(last'.calls) = 1
                /\ moditer[m].yields + moditer[m].nones = 0 => last'.calls = <<"Module32FirstW">>
       /\ \A m \in MemIterIds :
            MemPull(m) =>
                /\ Len(last'.calls) = 1
                /\ (memiter[m].prev = None /\ memiter[m].nones = 0) => last'.calls = <<None>>
       /\ last'.op \in IterOps =>
            /\ os_open' = os_open
            /\ os_closes' = os_closes
            /\ \A i \in HandleIds : handle'[i].st = handle[i].st
            /\ \A t \in SnapIds : snap'[t].st = snap[t].st]_vars

C15_Witness ==
    /\ \E m \in ModIterIds : moditer[m].st = "dropped"
    /\ \E m \in ModIterIds : moditer[m].st = "live" /\ moditer[m].yields = 2
    /\ \E m \in MemIterIds : memiter[m].st = "live" /\ memiter[m].prev # None
    /\ \A v \in RawVals : os_closes[v] = 0
    /\ Cardinality(os_open) = 2

\* C17: whatever pulls are made on the other iterators of the same snapshot,
\* the k-th pull on a module iterator of a snapshot that captured N modules
\* returns module k for k <= N and None for k > N.
C17_IteratorsAreIndependent ==
    [][\A m \in ModIterIds :
          ModPull(m) =>
              LET k == moditer[m].yields + moditer[m].nones + 1
              IN  last'.ret = IF k <= toolhelp[SnapOf(m).raw].count THEN Some(k) ELSE None]_vars

\* ----------------------------------------------- memory iteration, again
\* C18: every pull whose VirtualQueryEx succeeded, also one whose region
\* ends at the top of the address space, completes without overflow and sets
\* the cursor to the previous cursor plus the region size, a strictly greater
\* address.
C18_CursorNeverWraps ==
    [][\A m \in MemIterIds :
          (MemPull(m) /\ last'.answers = <<"ok">>) =>
              LET before == unwrap_or(memiter[m].current_address, 0)
              IN  /\ ~panicked'
                  /\ last'.ret # None
                  /\ memiter'[m].current_address = Some(before + last'.ret[1].size)
                  /\ memiter'[m].current_address[1] > before]_vars

\* C19: a pull that returns None leaves the cursor as it was, and once a
\* pull has returned None every later pull queries that same address and
\* returns None again (the extent of the address space does not change).
C19_FailedQueryKeepsCursor ==
    [][\A m \in MemIterIds :
          MemPull(m) =>
              /\ (last'.ret = None /\ ~panicked') =>
                    memiter'[m].current_address = memiter[m].current_address
              /\ memiter[m].nones > 0 =>
                    /\ last'.calls = <<memiter[m].current_address>>
                    /\ last'.answers = <<"err">>
                    /\ last'.ret = None
                    /\ ~panicked'
                    /\ memiter'[m].current_address = memiter[m].current_address]_vars

C19_Witness ==
    \E m \in MemIterIds :
        /\ memiter[m].st = "live"
        /\ memiter[m].nones = 2
        /\ memiter[m].prev # None /\ memiter[m].prev[1].base > 0
        /\ memiter[m].current_address = Some(vm_end)
        /\ last.op = "mem_next" /\ last.ret = None /\ ~panicked

\* --------------------------------------------------------- access masks
\* A mask as the set of its bit positions.
Bits(mask) == {k \in 0..23 : (mask \div (2 ^ k)) % 2 = 1}

\* Process access rights of the platform (winnt.h), as sets of bit positions:
\* PROCESS_VM_READ 0x0010, PROCESS_VM_WRITE 0x0020, PROCESS_QUERY_INFORMATION
\* 0x0400, PROCESS_ALL_ACCESS 0x1FFFFF (STANDARD_RIGHTS_REQUIRED | SYNCHRONIZE
\* | 0xFFFF).
PROCESS_VM_READ == {4}
PROCESS_VM_WRITE == {5}
PROCESS_QUERY_INFORMATION == {10}
PROCESS_ALL_ACCESS == 0..20

\* C16: the first OpenProcess of an acquire requests PROCESS_ALL_ACCESS, and
\* the second, when issued, requests exactly PROCESS_QUERY_INFORMATION and
\* PROCESS_VM_READ, hence not PROCESS_VM_WRITE.
C16_AccessMasksMatchPolicy ==
    last.op \in {"try_from", "default"} =>
        /\ Bits(last.calls[1]) = PROCESS_ALL_ACCESS
        /\ Len(last.calls) = 2 =>
              /\ Bits(last.calls[2]) = PROCESS_QUERY_INFORMATION \cup PROCESS_VM_READ
              /\ Bits(last.calls[2]) \cap PROCESS_VM_WRITE = {}

====
